---- MODULE Spec2Model ----
(***************************************************************************)
(* A model of folder_cleaner: FilePattern::matches (fs_utils/pattern.rs),  *)
(* remove (fs_utils/op.rs, fs_utils/error.rs), Routine::run and            *)
(* spawn_routine (routine.rs).                                             *)
(*                                                                         *)
(* Strings are sequences of one-character strings, so that                 *)
(* Path::extension is computed and not assumed.  A path is a sequence of   *)
(* components.  Option values are <<>> (None) and <<v>> (Some(v)).         *)
(***************************************************************************)
EXTENDS Integers, Sequences, FiniteSets

VARIABLES
    callPattern,  \* the FilePattern a caller passes to matches
    callPath,     \* the path a caller passes to matches
    callResult,   \* what matches returned: None before the call, then Some(bool)
    fs,           \* the filesystem: path -> "none" | "file" | "dir"
    denied,       \* objects on which every operation fails with access denied
    rmCall,       \* the last call of remove by a sequential caller
    routines,     \* the Routine values (directory, pattern), immutable
    pc,           \* each spawned thread's position in the loop of spawn_routine
    entries,      \* each thread's pass: what became of every listed entry
    runResult,    \* what each thread's last finished call of run returned
    disturbed     \* whether another actor changed a thread's directory in its pass

patternVars == <<callPattern, callPath, callResult>>
threadVars == <<routines, pc, entries, runResult, disturbed>>
vars == <<callPattern, callPath, callResult, fs, denied, rmCall,
          routines, pc, entries, runResult, disturbed>>

None == <<>>
Some(v) == <<v>>

-----------------------------------------------------------------------------
(* Bounds of the model.                                                    *)

\* longest file name drawn from Alphabet as an input of matches
MaxNameLen == 4
\* longest extension drawn from Alphabet as a pattern's ext
MaxExtLen == 2
\* most objects that deny access at once
MaxDenied == 2

-----------------------------------------------------------------------------
(* std::path::Path, as far as pattern.rs uses it.                          *)

Alphabet == {"l", "L", "."}
DotDot == <<".", ".">>

StringsUpTo(n) == UNION {[1..k -> Alphabet] : k \in 0..n}

\* the names of the spec's examples
NameALnk == <<"a", ".", "l", "n", "k">>
NameALNK == <<"a", ".", "L", "N", "K">>
NameALnkBak == <<"a", ".", "l", "n", "k", ".", "b", "a", "k">>
NameBTxt == <<"b", ".", "t", "x", "t">>
NameC == <<"c">>
NameDLnk == <<"d", ".", "l", "n", "k">>
NameX == <<"x">>
NameDesk == <<"d", "e", "s", "k">>
NameTmp == <<"t", "m", "p">>
ExtLnk == <<"l", "n", "k">>

\* Path::file_name: the final component, None when it is ".."
file_name(path) ==
    IF path = <<>> THEN None
    ELSE IF path[Len(path)] = DotDot THEN None
    ELSE Some(path[Len(path)])

\* the index of the last "." of a string, 0 when it has none
LastDot(s) ==
    LET dots == {i \in 1..Len(s) : s[i] = "."}
    IN IF dots = {} THEN 0 ELSE CHOOSE i \in dots : \A j \in dots : j <= i

\* std's rsplit_file_at_dot: <<before, after>>, split at the last dot
rsplit_file_at_dot(file) ==
    IF file = DotDot THEN <<Some(file), None>>
    ELSE LET d == LastDot(file)
             after == Some(SubSeq(file, d + 1, Len(file)))
             before == IF d = 0 THEN None ELSE Some(SubSeq(file, 1, d - 1))
         IN IF before = Some(<<>>) THEN <<Some(file), None>>
            ELSE <<before, after>>

\* Path::extension: file_name().map(rsplit_file_at_dot).and_then(before.and(after))
extension(path) ==
    IF file_name(path) = None THEN None
    ELSE LET ba == rsplit_file_at_dot(file_name(path)[1])
         IN IF ba[1] = None THEN None ELSE ba[2]

\* Option::unwrap_or_default on Option<&OsStr>: the empty string for None
unwrap_or_default(opt) == IF opt = None THEN <<>> ELSE opt[1]

-----------------------------------------------------------------------------
(* fs_utils/pattern.rs                                                     *)

Any == [tag |-> "Any"]
Extension(ext) == [tag |-> "Extension", ext |-> ext]

\* a variant of has_extension that ignores case
has_extension_ignore_case(path, ext) ==
    LET lower(s) == [i \in 1..Len(s) |->
                        IF s[i] = "L" THEN "l" ELSE IF s[i] = "N" THEN "n"
                        ELSE IF s[i] = "K" THEN "k" ELSE s[i]]
    IN lower(unwrap_or_default(extension(path))) = lower(ext)

\* has_extension: path.extension().unwrap_or_default() == ext.as_str()
has_extension(path, ext) == unwrap_or_default(extension(path)) = ext

\* a variant of matches that selects every path whatever the pattern
matches_ignoring_pattern(pattern, path) == TRUE

\* FilePattern::matches
matches(pattern, path) ==
    IF pattern.tag = "Any" THEN TRUE ELSE has_extension(path, pattern.ext)

-----------------------------------------------------------------------------
(* The filesystem the program works on.                                    *)

Desk == <<NameDesk>>
Tmp == <<NameTmp>>

\* every path of the model, and the kinds of object each can be
Universe ==
    {Desk, Desk \o <<NameALnk>>, Desk \o <<NameALnk, NameX>>,
     Desk \o <<NameBTxt>>, Desk \o <<NameC>>, Desk \o <<NameC, NameDLnk>>,
     Tmp, Tmp \o <<NameALnk>>, Tmp \o <<NameALNK>>}

Kinds(p) ==
    IF p \in {Desk, Desk \o <<NameC>>} THEN {"none", "dir"}
    ELSE IF p \in {Tmp, Desk \o <<NameALnk>>} THEN {"none", "file", "dir"}
    ELSE {"none", "file"}

IsPrefix(p, q) == Len(p) <= Len(q) /\ SubSeq(q, 1, Len(p)) = p
Subtree(p) == {q \in Universe : IsPrefix(p, q)}
Below(p) == Subtree(p) \ {p}
Parent(p) == SubSeq(p, 1, Len(p) - 1)

\* an object exists only inside a directory that exists
WellFormed(f) ==
    \A p \in Universe :
        (f[p] # "none" /\ Len(p) > 1) => f[Parent(p)] = "dir"

Filesystems == {f \in [Universe -> {"none", "file", "dir"}] :
                    (\A p \in Universe : f[p] \in Kinds(p)) /\ WellFormed(f)}

DeniedSets == {d \in SUBSET Universe : Cardinality(d) <= MaxDenied}

Existing(f, ps) == {q \in ps : f[q] # "none"}
Without(f, ps) == [q \in Universe |-> IF q \in ps THEN "none" ELSE f[q]]

-----------------------------------------------------------------------------
(* std::io::Error and the std::fs calls of op.rs, as Windows answers them  *)
(* (error.rs tests the Windows error code).                                *)

ERROR_DIRECTORY == 267

IoOk == [ok |-> TRUE]
IoErr(e) == [ok |-> FALSE, err |-> e]
ErrNotFound == [kind |-> "NotFound", raw |-> 2]
ErrAccessDenied == [kind |-> "PermissionDenied", raw |-> 5]
ErrNotADirectory == [kind |-> "NotADirectory", raw |-> ERROR_DIRECTORY]

\* what a failed remove_dir_all may already have removed: objects below p that
\* do not deny access, a directory only together with everything in it
PartlyRemoved(f, den, p) ==
    {s \in SUBSET (Existing(f, Below(p)) \ den) :
        \A q \in s : Existing(f, Below(q)) \subseteq s}

\* std::fs::remove_dir_all(p): the outcomes [fs, res]
fs_remove_dir_all(f, den, p) ==
    IF f[p] = "none" THEN {[fs |-> f, res |-> IoErr(ErrNotFound)]}
    ELSE IF f[p] = "file" THEN
        {[fs |-> f, res |-> IoErr(ErrNotADirectory)]}
        \cup (IF p \in den THEN {[fs |-> f, res |-> IoErr(ErrAccessDenied)]} ELSE {})
    ELSE IF Existing(f, Subtree(p)) \cap den = {} THEN
        {[fs |-> Without(f, Subtree(p)), res |-> IoOk]}
    ELSE {[fs |-> Without(f, s), res |-> IoErr(ErrAccessDenied)] :
            s \in PartlyRemoved(f, den, p)}

\* std::fs::remove_dir(p), which removes only an empty directory
fs_remove_dir(f, den, p) ==
    IF f[p] = "dir" /\ Existing(f, Below(p)) # {}
    THEN {[fs |-> f, res |-> IoErr([kind |-> "DirectoryNotEmpty", raw |-> 145])]}
    ELSE fs_remove_dir_all(f, den, p)

\* std::fs::remove_file(p): the outcomes [fs, res]
fs_remove_file(f, den, p) ==
    IF f[p] = "none" THEN {[fs |-> f, res |-> IoErr(ErrNotFound)]}
    ELSE IF f[p] = "dir" \/ p \in den THEN {[fs |-> f, res |-> IoErr(ErrAccessDenied)]}
    ELSE {[fs |-> Without(f, {p}), res |-> IoOk]}

-----------------------------------------------------------------------------
(* fs_utils/error.rs                                                       *)

FailedToRemove(path, source) == [path |-> path, source |-> source]
io_source(e) == e.source

\* a variant of not_found that knows ERROR_PATH_NOT_FOUND only
not_found_path_only(e) == e.raw = 3

\* not_found: e.kind() == io::ErrorKind::NotFound
not_found(e) == e.kind = "NotFound"

\* a variant of not_a_directory that tests the Unix code ENOTDIR
not_a_directory_unix(e) == e.raw = 20

\* not_a_directory: matches!(e.raw_os_error(), Some(267))
not_a_directory(e) == e.raw = ERROR_DIRECTORY

-----------------------------------------------------------------------------
(* fs_utils/op.rs.  An outcome is [fs, res, io]: the filesystem afterwards, *)
(* the Result returned, and the std::fs calls made with their results.     *)

Ok == [ok |-> TRUE]
Err(e) == [ok |-> FALSE, error |-> e]

\* a variant of remove_with without the arm for "not found"
remove_with_every_error(remover, outs, path) ==
    {[fs |-> o.fs,
      res |-> IF o.res.ok THEN Ok ELSE Err(FailedToRemove(path, o.res.err)),
      io |-> <<[op |-> remover, res |-> o.res]>>] : o \in outs}

\* remove_with(remover, path), outs being the outcomes of remover(path)
remove_with(remover, outs, path) ==
    {[fs |-> o.fs,
      res |-> IF o.res.ok THEN Ok
              ELSE IF not_found(o.res.err) THEN Ok
              ELSE Err(FailedToRemove(path, o.res.err)),
      io |-> <<[op |-> remover, res |-> o.res]>>] : o \in outs}

\* a variant of remove_dir that calls std::fs::remove_dir
remove_dir_not_recursive(f, den, path) ==
    remove_with("remove_dir", fs_remove_dir(f, den, path), path)

\* remove_dir: remove_with(|p| fs::remove_dir_all(p), path)
remove_dir(f, den, path) ==
    remove_with("remove_dir_all", fs_remove_dir_all(f, den, path), path)

\* remove_file: remove_with(|p| fs::remove_file(p), path)
remove_file(f, den, path) ==
    remove_with("remove_file", fs_remove_file(f, den, path), path)

\* no call of remove yet
NoCall == [path |-> <<>>, before |-> "none", populated |-> FALSE,
           res |-> Ok, io |-> <<>>]

\* whether remove redirects the outcome of remove_dir to remove_file
Redirects(o) == ~o.res.ok /\ not_a_directory(io_source(o.res.error))

\* remove: remove_dir, and remove_file when that says "not a directory"
remove(f, den, path) ==
    UNION {IF Redirects(o)
           THEN {[fs |-> o2.fs, res |-> o2.res, io |-> o.io \o o2.io] :
                    o2 \in remove_file(o.fs, den, path)}
           ELSE {o} : o \in remove_dir(f, den, path)}

-----------------------------------------------------------------------------
(* routine.rs: Routine::run and the loop of spawn_routine, one thread per  *)
(* routine.  A thread is at "run" (about to call run), "iter" (in the for  *)
(* loop of run), "remove_file" (inside remove, between its two std::fs     *)
(* calls) or "sleep".  entries[r][n] tells what became of entry n in the   *)
(* pass of thread r: "unlisted", "pending", "errored" (the item was Err),  *)
(* "skipped" (no match), "file" (remove_dir_all answered not a directory), *)
(* "removed" and "not_found" (remove returned Ok, the std::fs call having  *)
(* removed it or found nothing), "failed" (remove returned Err).           *)

RoutineIds == {1, 2}
EntryNames == {NameALnk, NameALNK, NameBTxt, NameC}
InPass == {"iter", "remove_file"}

\* a variant of entry_path that resolves the entry's bare name against the
\* working directory, Desk
entry_path_in_working_directory(directory, name) == Desk \o <<name>>

\* DirEntry::path(): the directory joined with the entry's name
entry_path(directory, name) == directory \o <<name>>

\* Path::read_dir(): an error, or the names of the directory's entries
fs_read_dir(f, den, directory) ==
    IF f[directory] = "none" THEN IoErr(ErrNotFound)
    ELSE IF f[directory] = "file" THEN IoErr(ErrNotADirectory)
    ELSE IF directory \in den THEN IoErr(ErrAccessDenied)
    ELSE [ok |-> TRUE,
          names |-> {n \in EntryNames :
                        /\ directory \o <<n>> \in Universe
                        /\ f[directory \o <<n>>] # "none"}]

\* another actor changed something in the directory of a thread that has
\* listed it: r is the actor (0 for an external process)
Disturb(r, f, f2) ==
    [q \in RoutineIds |->
        IF /\ q # r
           /\ pc[q] \in InPass \cup {"sleep"}
           /\ \E p \in Subtree(routines[q].directory) : f[p] # f2[p]
        THEN TRUE ELSE disturbed[q]]

\* a variant of listing_error that takes a failed listing for an empty one
listing_error_swallowed(e) == Some(IoOk)

\* the `?` of run, line 87: run returns the error of read_dir
listing_error(e) == Some(IoErr(e))

\* run, line 87: self.directory.read_dir()?
ReadDir(r) ==
    /\ pc[r] = "run"
    /\ LET listing == fs_read_dir(fs, denied, routines[r].directory)
       IN IF listing.ok
          THEN /\ entries' = [entries EXCEPT ![r] =
                    [n \in EntryNames |->
                        IF n \in listing.names THEN "pending" ELSE "unlisted"]]
               /\ pc' = [pc EXCEPT ![r] = "iter"]
               /\ UNCHANGED runResult
          ELSE /\ entries' = [entries EXCEPT ![r] = [n \in EntryNames |-> "unlisted"]]
               /\ runResult' = [runResult EXCEPT ![r] = listing_error(listing.err)]
               /\ pc' = [pc EXCEPT ![r] = "sleep"]
    /\ disturbed' = [disturbed EXCEPT ![r] = FALSE]
    /\ UNCHANGED <<fs, denied, routines, rmCall, patternVars>>

\* what an entry's status becomes when remove returns
Removed(o) ==
    IF ~o.res.ok THEN "failed"
    ELSE IF o.io[Len(o.io)].res.ok THEN "removed" ELSE "not_found"

\* a variant of drop_result that leaves run at the first failed removal
propagate_result(res) == IF res.ok THEN "iter" ELSE "sleep"

\* run, line 90: the Result of remove is dropped and the loop goes on
drop_result(res) == "iter"

\* run, line 88: the loop goes on after an item that is Err
skip_item_error == "iter"

\* run, lines 87-93: one turn of the for loop, up to the first std::fs call
\* of remove; the listing yields its entries in any order
NextItem(r) ==
    /\ pc[r] = "iter"
    /\ \E n \in EntryNames, itemOk \in BOOLEAN :
        /\ entries[r][n] = "pending"
        /\ LET path == entry_path(routines[r].directory, n)
           IN IF ~itemOk
              THEN /\ entries' = [entries EXCEPT ![r][n] = "errored"]
                   /\ pc' = [pc EXCEPT ![r] = skip_item_error]
                   /\ UNCHANGED <<fs, disturbed>>
              ELSE IF ~matches(routines[r].pattern, path)
              THEN /\ entries' = [entries EXCEPT ![r][n] = "skipped"]
                   /\ UNCHANGED <<pc, fs, disturbed>>
              ELSE \E o \in remove_dir(fs, denied, path) :
                   /\ fs' = o.fs
                   /\ disturbed' = Disturb(r, fs, o.fs)
                   /\ IF Redirects(o)
                      THEN /\ entries' = [entries EXCEPT ![r][n] = "file"]
                           /\ pc' = [pc EXCEPT ![r] = "remove_file"]
                      ELSE /\ entries' = [entries EXCEPT ![r][n] = Removed(o)]
                           /\ pc' = [pc EXCEPT ![r] = drop_result(o.res)]
    /\ UNCHANGED <<denied, routines, runResult, rmCall, patternVars>>

\* remove, line 34: the plain file removal remove redirects to
RemoveFileStep(r) ==
    /\ pc[r] = "remove_file"
    /\ \E n \in EntryNames :
        /\ entries[r][n] = "file"
        /\ \E o \in remove_file(fs, denied, entry_path(routines[r].directory, n)) :
            /\ fs' = o.fs
            /\ disturbed' = Disturb(r, fs, o.fs)
            /\ entries' = [entries EXCEPT ![r][n] = Removed(o)]
            /\ pc' = [pc EXCEPT ![r] = drop_result(o.res)]
    /\ UNCHANGED <<denied, routines, runResult, rmCall, patternVars>>

\* run, line 94: the listing is exhausted and run returns Ok(())
RunReturn(r) ==
    /\ pc[r] = "iter"
    /\ \A n \in EntryNames : entries[r][n] # "pending"
    /\ runResult' = [runResult EXCEPT ![r] = Some(IoOk)]
    /\ pc' = [pc EXCEPT ![r] = "sleep"]
    /\ UNCHANGED <<fs, denied, routines, entries, disturbed, rmCall, patternVars>>

\* a variant of loop_again that leaves the loop when run returned an error
exit_after_error(result) ==
    IF result # None /\ ~result[1].ok THEN "exit" ELSE "run"

\* spawn_routine, lines 101-105: the result of run is dropped, and the loop
\* has no exit
loop_again(result) == "run"

\* spawn_routine, line 104: thread::sleep(interval) returns
Sleep(r) ==
    /\ pc[r] = "sleep"
    /\ pc' = [pc EXCEPT ![r] = loop_again(runResult[r])]
    /\ entries' = [entries EXCEPT ![r] = [n \in EntryNames |-> "unlisted"]]
    /\ disturbed' = [disturbed EXCEPT ![r] = FALSE]
    /\ UNCHANGED <<fs, denied, routines, runResult, rmCall, patternVars>>

ThreadStep(r) ==
    \/ ReadDir(r)
    \/ NextItem(r)
    \/ RemoveFileStep(r)
    \/ RunReturn(r)
    \/ Sleep(r)

\* an external process deletes an object and everything below it
ExtDelete(p) ==
    /\ fs[p] # "none"
    /\ fs' = Without(fs, Subtree(p))
    /\ disturbed' = Disturb(0, fs, fs')
    /\ UNCHANGED <<denied, routines, pc, entries, runResult, rmCall, patternVars>>

\* the filesystems a run of the program starts from: Desk holds a.lnk (a
\* file, or a directory holding x), b.txt and c/d.lnk; Tmp is a directory
\* holding a.lnk and a.LNK, or a file
InitFilesystems ==
    {f \in Filesystems :
        /\ \A p \in Subtree(Desk) \ {Desk \o <<NameALnk, NameX>>} : f[p] # "none"
        /\ f[Desk \o <<NameALnk>>] = "dir" => f[Desk \o <<NameALnk, NameX>>] = "file"
        /\ f[Tmp] = "dir" => \A p \in Subtree(Tmp) : f[p] # "none"}

\* the smaller filesystems two routines start from: Desk holds a.lnk (a file,
\* or a directory holding x) and b.txt; Tmp is a file, or a directory holding
\* a.lnk
SmallFilesystems ==
    {f \in Filesystems :
        /\ f[Desk] = "dir" /\ f[Desk \o <<NameBTxt>>] = "file"
        /\ f[Desk \o <<NameC>>] = "none"
        /\ f[Desk \o <<NameALnk>>] # "none"
        /\ f[Desk \o <<NameALnk>>] = "dir" <=> f[Desk \o <<NameALnk, NameX>>] = "file"
        /\ f[Tmp] # "none"
        /\ f[Tmp] = "dir" => f[Tmp \o <<NameALnk>>] = "file"
        /\ f[Tmp \o <<NameALNK>>] = "none"}

\* the objects that may deny access in a run
Deniable == {Desk \o <<NameALnk>>, Desk \o <<NameALnk, NameX>>,
             Desk \o <<NameBTxt>>, Tmp}

\* what an external process may delete
ExtTargets == {Desk, Desk \o <<NameALnk>>, Desk \o <<NameC>>, Tmp}

Patterns == {Any, Extension(ExtLnk)}

InitEnvironment(filesystems, deniable) ==
    /\ fs \in filesystems
    /\ denied \in {d \in DeniedSets : d \subseteq deniable}
    /\ entries = [r \in RoutineIds |-> [n \in EntryNames |-> "unlisted"]]
    /\ runResult = [r \in RoutineIds |-> None]
    /\ disturbed = [r \in RoutineIds |-> FALSE]
    /\ rmCall = NoCall
    /\ callPattern = Any /\ callPath = <<>> /\ callResult = None

Next ==
    \/ \E r \in RoutineIds : ThreadStep(r)
    \/ \E p \in ExtTargets : ExtDelete(p)

\* SpecRun: one routine is spawned, of either pattern, on either directory
InitRun ==
    /\ InitEnvironment(InitFilesystems, Deniable)
    /\ routines \in {rs \in [RoutineIds -> [directory : {Desk, Tmp}, pattern : Patterns]] :
                        rs[2] = [directory |-> Tmp, pattern |-> Any]}
    /\ pc = [r \in RoutineIds |-> IF r = 1 THEN "run" ELSE "unspawned"]

SpecRun == InitRun /\ [][Next]_vars

\* the scheduler runs the thread again and again, and every sleep ends
FairSpecRun == SpecRun /\ WF_vars(ThreadStep(1))

\* Spec: two routines are spawned: the first clears the shortcuts of Desk,
\* the second everything in Tmp (disjoint directories) or in Desk (the same)
Init ==
    /\ InitEnvironment(SmallFilesystems, {Desk \o <<NameBTxt>>, Desk \o <<NameALnk, NameX>>})
    /\ routines \in
        {[r \in RoutineIds |->
            IF r = 1 THEN [directory |-> Desk, pattern |-> Extension(ExtLnk)]
            ELSE [directory |-> d, pattern |-> Any]] : d \in {Tmp, Desk}}
    /\ pc = [r \in RoutineIds |-> "run"]

Spec == Init /\ [][Next]_vars

-----------------------------------------------------------------------------
(* Idle values of the variables a specification does not use.              *)

IdlePattern == callPattern = Any /\ callPath = <<>> /\ callResult = None
IdleRemove == rmCall = NoCall
IdleThreads ==
    /\ routines = [r \in RoutineIds |-> [directory |-> Desk, pattern |-> Any]]
    /\ pc = [r \in RoutineIds |-> "run"]
    /\ entries = [r \in RoutineIds |-> [n \in EntryNames |-> "unlisted"]]
    /\ runResult = [r \in RoutineIds |-> None]
    /\ disturbed = [r \in RoutineIds |-> FALSE]
IdleFs == fs = [p \in Universe |-> "none"] /\ denied = {}

-----------------------------------------------------------------------------
(* SpecPattern: a caller of FilePattern::matches.                          *)

PathInputs ==
    LET names == (StringsUpTo(MaxNameLen) \ {<<>>, <<".">>})
                    \cup {NameALnk, NameALNK, NameALnkBak, NameC}
    IN {<<n>> : n \in names} \cup {<<NameALnk, n>> : n \in names}

PatternInputs ==
    {Any} \cup {Extension(e) : e \in StringsUpTo(MaxExtLen) \cup {ExtLnk}}

InitPattern ==
    /\ callPattern \in PatternInputs
    /\ callPath \in PathInputs
    /\ callResult = None
    /\ IdleFs /\ IdleRemove /\ IdleThreads

CallMatches ==
    /\ callResult = None
    /\ callResult' = Some(matches(callPattern, callPath))
    /\ UNCHANGED <<callPattern, callPath, fs, denied, rmCall, threadVars>>

NextPattern == CallMatches

SpecPattern == InitPattern /\ [][NextPattern]_vars

-----------------------------------------------------------------------------
(* SpecRemove: a sequential caller of remove, on any path of any           *)
(* filesystem, with nothing else touching the filesystem.                  *)

InitRemove ==
    /\ fs \in Filesystems
    /\ denied \in DeniedSets
    /\ IdleRemove /\ IdlePattern /\ IdleThreads

\* the whole of remove(path); rmCall keeps what was there before
CallRemove(path) ==
    \E o \in remove(fs, denied, path) :
        /\ fs' = o.fs
        /\ rmCall' = [path |-> path, before |-> fs[path],
                      populated |-> Existing(fs, Below(path)) # {},
                      res |-> o.res, io |-> o.io]
        /\ UNCHANGED <<denied, patternVars, threadVars>>

NextRemove == \E path \in Universe : CallRemove(path)

SpecRemove == InitRemove /\ [][NextRemove]_vars

-----------------------------------------------------------------------------
(* Claims about FilePattern::matches, checked under SpecPattern.           *)

FileNameOf(path) == path[Len(path)]

\* the final component has a dot that is not its first character
HasExtension(path) ==
    /\ FileNameOf(path) # DotDot
    /\ \E i \in 2..Len(FileNameOf(path)) : FileNameOf(path)[i] = "."

\* the text after the final component's last dot; empty without an extension
ExtensionText(path) ==
    LET name == FileNameOf(path)
        n == Len(name)
    IN IF ~HasExtension(path) THEN <<>>
       ELSE CHOOSE s \in {SubSeq(name, k, n) : k \in 2..(n + 1)} :
                /\ \A i \in 1..Len(s) : s[i] # "."
                /\ name[n - Len(s)] = "."

\* C4: Any matches every path; Extension(ext) matches exactly the paths whose
\* extension (the text after the last dot of the final component, compared
\* case-sensitively, a path without an extension counting as the empty
\* extension) is ext; a path with no extension matches no non-empty ext; and
\* Extension("lnk") matches a.lnk but neither a.LNK, a.lnk.bak nor c.
C4_MatchesIffExtensionEquals ==
    callResult # None =>
        LET r == callResult[1]
        IN /\ callPattern = Any => r = TRUE
           /\ callPattern.tag = "Extension" =>
                /\ r = (ExtensionText(callPath) = callPattern.ext)
                /\ (~HasExtension(callPath) /\ callPattern.ext # <<>>) => r = FALSE
           /\ callPattern = Extension(ExtLnk) =>
                /\ callPath = <<NameALnk>> => r = TRUE
                /\ callPath \in {<<NameALNK>>, <<NameALnkBak>>, <<NameC>>} => r = FALSE

C4_Witness ==
    /\ callResult = Some(FALSE)
    /\ callPattern = Extension(ExtLnk)
    /\ callPath = <<NameALnkBak>>

-----------------------------------------------------------------------------
(* Claims about remove, checked under SpecRemove.                          *)

\* no object at or below path denies access
NoOperationalFailure(f, den, path) == Existing(f, Subtree(path)) \cap den = {}

\* C1: remove of a path that exists (a file, an empty or a populated
\* directory), nothing at or below it denying access, returns Ok, leaves
\* nothing at or below the path and changes nothing outside its subtree.
C1_RemoveExisting ==
    [][LET path == rmCall'.path
       IN (path \in Universe /\ fs[path] # "none"
                /\ NoOperationalFailure(fs, denied, path)) =>
            /\ rmCall'.res.ok
            /\ \A q \in Subtree(path) : fs'[q] = "none"
            /\ \A q \in Universe \ Subtree(path) : fs'[q] = fs[q]]_vars

C1_Witness ==
    /\ rmCall.path = Desk \o <<NameALnk>>
    /\ rmCall.before = "dir" /\ rmCall.populated
    /\ rmCall.res.ok
    /\ fs[Desk \o <<NameBTxt>>] = "file"
    /\ fs[Desk \o <<NameC, NameDLnk>>] = "file"

\* C2: remove of a path that does not exist returns Ok and changes nothing;
\* after remove returned Ok the path does not exist, and a second remove of
\* the same path returns Ok and changes nothing.
C2_RemoveAbsentIsOk ==
    [][LET path == rmCall'.path
       IN path \in Universe =>
            /\ fs[path] = "none" => (rmCall'.res.ok /\ fs' = fs)
            /\ rmCall'.res.ok => fs'[path] = "none"
            /\ (rmCall.path = path /\ rmCall.res.ok) =>
                    (rmCall'.res.ok /\ fs' = fs)]_vars

C2_Witness ==
    /\ rmCall.path = Desk \o <<NameC, NameDLnk>>
    /\ rmCall.before = "none"
    /\ rmCall.res.ok
    /\ fs[Desk] = "dir"

\* C3: an error of remove carries the path passed in and the error of the
\* last std::fs call made; that error is never "not found" and is an
\* operational failure (access denied by an object at or below the path);
\* and when remove_dir_all answered "not a directory" that error is not
\* returned: remove_file was called on the same path and decides the result.
C3_ErrorCarriesPathAndCause ==
    [][LET call == rmCall'
       IN call.path \in Universe =>
            /\ ~call.res.ok =>
                /\ call.res.error.path = call.path
                /\ ~call.io[Len(call.io)].res.ok
                /\ call.res.error.source = call.io[Len(call.io)].res.err
                /\ call.res.error.source.kind # "NotFound"
                /\ call.res.error.source.raw # ERROR_DIRECTORY
                /\ call.res.error.source = ErrAccessDenied
                /\ ~NoOperationalFailure(fs, denied, call.path)
            /\ (~call.io[1].res.ok /\ call.io[1].res.err.raw = ERROR_DIRECTORY) =>
                /\ Len(call.io) = 2
                /\ call.io[1].op = "remove_dir_all"
                /\ call.io[2].op = "remove_file"
                /\ call.res.ok = call.io[2].res.ok]_vars

C3_Witness ==
    /\ rmCall.path = Desk \o <<NameBTxt>>
    /\ rmCall.before = "file"
    /\ ~rmCall.res.ok
    /\ Len(rmCall.io) = 2
    /\ rmCall.res.error.path = Desk \o <<NameBTxt>>

-----------------------------------------------------------------------------
(* Claims about Routine::run and spawn_routine.                            *)

DirOf(r) == routines[r].directory
PathOf(r, n) == routines[r].directory \o <<n>>

\* the entries of the model a pattern selects: Extension("lnk") selects a.lnk
\* and none of a.LNK, b.txt and c
Selects(r, n) ==
    \/ routines[r].pattern = Any
    \/ routines[r].pattern = Extension(ExtLnk) /\ n = NameALnk

\* this step is a step of thread r
ThreadMoved(r) ==
    \/ pc'[r] # pc[r]
    \/ entries'[r] # entries[r]
    \/ runResult'[r] # runResult[r]

\* thread r has finished a pass whose listing succeeded
PassEnded(r) == pc[r] = "sleep" /\ runResult[r] = Some(IoOk)

\* the entries the listing of the pass yielded without an error
Yielded(r) == {n \in EntryNames : entries[r][n] \notin {"unlisted", "errored"}}
Listed(r) == {n \in EntryNames : entries[r][n] # "unlisted"}

NoRemovalFailed(r) == \A n \in EntryNames : entries[r][n] # "failed"

\* a step of thread r changes nothing but selected entries of its listing
OnlySelectedEntriesChange(r) ==
    ThreadMoved(r) =>
        \A p \in Universe :
            fs'[p] # fs[p] =>
                \E n \in EntryNames :
                    /\ Selects(r, n)
                    /\ entries[r][n] \in {"pending", "file"}
                    /\ IsPrefix(PathOf(r, n), p)

\* C5 as stated: after a pass without a failed removal and without a
\* concurrent modification, every entry of the directory that the pattern
\* selects is gone and every other entry is still there, and no step of the
\* pass changes anything but selected immediate entries.
C5_Original ==
    [][\A r \in RoutineIds :
        /\ OnlySelectedEntriesChange(r)
        /\ (PassEnded(r) /\ NoRemovalFailed(r) /\ ~disturbed[r])' =>
            \A n \in Listed(r)' :
                IF Selects(r, n) THEN fs'[PathOf(r, n)] = "none"
                ELSE fs'[PathOf(r, n)] # "none"]_vars

\* C5 as amended: the same for the entries the listing yields without an
\* error; an entry whose item is an error is left in place, selected or not.
C5_PassRemovesSelectedEntries ==
    [][\A r \in RoutineIds :
        /\ OnlySelectedEntriesChange(r)
        /\ (PassEnded(r) /\ NoRemovalFailed(r) /\ ~disturbed[r])' =>
            /\ \A n \in Yielded(r)' :
                IF Selects(r, n)
                THEN \A p \in Subtree(PathOf(r, n)) : fs'[p] = "none"
                ELSE fs'[PathOf(r, n)] # "none"
            /\ \A n \in Listed(r)' \ Yielded(r)' : fs'[PathOf(r, n)] # "none"]_vars

C5_Witness ==
    /\ routines[1] = [directory |-> Desk, pattern |-> Extension(ExtLnk)]
    /\ PassEnded(1) /\ ~disturbed[1]
    /\ entries[1][NameALnk] = "removed"
    /\ entries[1][NameBTxt] = "skipped" /\ entries[1][NameC] = "skipped"
    /\ fs[Desk \o <<NameALnk>>] = "none"
    /\ fs[Desk \o <<NameBTxt>>] = "file"
    /\ fs[Desk \o <<NameC, NameDLnk>>] = "file"

\* the error read_dir gives for a directory that cannot be listed
ListingFailure(r) ==
    IF fs[DirOf(r)] = "none" THEN Some(ErrNotFound)
    ELSE IF fs[DirOf(r)] = "file" THEN Some(ErrNotADirectory)
    ELSE IF DirOf(r) \in denied THEN Some(ErrAccessDenied)
    ELSE None

\* C6: when the directory does not exist, is not a directory or cannot be
\* read, run returns that error at once: the call changes nothing in the
\* filesystem, attempts no entry, and the thread goes to sleep.
C6_UnlistableDirectoryFails ==
    [][\A r \in RoutineIds :
        (pc[r] = "run" /\ ThreadMoved(r) /\ ListingFailure(r) # None) =>
            /\ fs' = fs
            /\ runResult'[r] = Some(IoErr(ListingFailure(r)[1]))
            /\ pc'[r] = "sleep"
            /\ Listed(r)' = {}]_vars

C6_Witness ==
    /\ routines[1].directory = Tmp
    /\ pc[1] = "sleep"
    /\ runResult[1] = Some(IoErr(ErrAccessDenied))
    /\ fs[Tmp \o <<NameALnk>>] = "file"

\* C7: once the listing succeeded the pass ends only when every listed entry
\* has been dealt with, and run then returns Ok: after a failed removal and
\* after an item that is an error the loop goes on, every selected entry the
\* listing yielded has been attempted when run returns.
C7_RunSucceedsAfterListing ==
    [][\A r \in RoutineIds :
        /\ (pc[r] \in InPass /\ pc'[r] \notin InPass) =>
            /\ pc'[r] = "sleep"
            /\ runResult'[r] = Some(IoOk)
            /\ \A n \in EntryNames : entries[r][n] \notin {"pending", "file"}
            /\ \A n \in Yielded(r) :
                Selects(r, n) => entries[r][n] \in {"removed", "not_found", "failed"}
        /\ \A n \in EntryNames :
            (entries'[r][n] # entries[r][n] /\ entries'[r][n] \in {"failed", "errored"}) =>
                pc'[r] = "iter"]_vars

C7_Witness ==
    /\ routines[1] = [directory |-> Desk, pattern |-> Any]
    /\ PassEnded(1)
    /\ entries[1][NameALnk] = "failed"
    /\ entries[1][NameBTxt] = "failed"
    /\ entries[1][NameC] = "errored"

\* C8: a spawned thread goes round the loop for ever: from "run" into the
\* pass or, the listing failing, to "sleep"; from the pass to "sleep" only;
\* from "sleep" to "run" only; and, the thread being scheduled, every sleep
\* is followed by a call of run and every call of run by a sleep.
C8_LoopsForever ==
    /\ [][\A r \in RoutineIds :
            pc'[r] # pc[r] =>
                \/ pc[r] = "run" /\ pc'[r] \in {"iter", "sleep"}
                \/ pc[r] = "iter" /\ pc'[r] \in {"remove_file", "sleep"}
                \/ pc[r] = "remove_file" /\ pc'[r] = "iter"
                \/ pc[r] = "sleep" /\ pc'[r] = "run"]_vars
    /\ (pc[1] = "sleep") ~> (pc[1] = "run")
    /\ (pc[1] = "run") ~> (pc[1] \in InPass \cup {"sleep"})
    /\ (pc[1] \in InPass) ~> (pc[1] = "sleep")

C8_Witness ==
    /\ pc[1] = "run"
    /\ runResult[1] = Some(IoErr(ErrNotFound))

\* the directories of the two routines are disjoint
Disjoint ==
    /\ ~IsPrefix(DirOf(1), DirOf(2))
    /\ ~IsPrefix(DirOf(2), DirOf(1))

LocalState(r) == <<pc[r], entries[r], runResult[r], disturbed[r]>>

\* C9: with disjoint directories a thread can always take its next step,
\* whatever the other thread is doing, and a step of one thread changes
\* nothing outside its own directory and nothing of the other thread.
C9_DisjointRoutinesIndependent ==
    [][Disjoint =>
        \A r \in RoutineIds :
            /\ ENABLED ThreadStep(r)
            /\ ThreadMoved(r) =>
                /\ \A p \in Universe \ Subtree(DirOf(r)) : fs'[p] = fs[p]
                /\ \A q \in RoutineIds \ {r} : LocalState(q)' = LocalState(q)]_vars

C9_Witness ==
    /\ Disjoint
    /\ pc[1] \in InPass /\ pc[2] \in InPass
    /\ entries[1][NameALnk] = "removed"
    /\ entries[2][NameALnk] = "removed"

\* a call of remove by thread r on entry n returns in this step
RemoveReturns(r, n) ==
    /\ entries[r][n] \in {"pending", "file"}
    /\ entries'[r][n] \in {"removed", "not_found", "failed"}

\* the part of C10 that holds as stated: remove of an entry that is no longer
\* there returns Ok without changing anything and the loop goes on, and a
\* pass whose listing succeeded ends with run returning Ok
DeletedEntryIsSuccess(r) ==
    /\ \A n \in EntryNames :
        (RemoveReturns(r, n) /\ fs[PathOf(r, n)] = "none") =>
            /\ entries'[r][n] = "not_found"
            /\ pc'[r] = "iter"
            /\ fs' = fs
    /\ (pc[r] \in InPass /\ pc'[r] \notin InPass) => PassEnded(r)'

\* another actor deleted an entry of the pass between listing and removal
RaceHappened(r) == \E n \in EntryNames : entries[r][n] = "not_found"

\* C10 as stated: ... and when such a pass ends, every selected entry that
\* was listed no longer exists.
C10_Original ==
    [][\A r \in RoutineIds :
        /\ DeletedEntryIsSuccess(r)
        /\ (PassEnded(r) /\ RaceHappened(r))' =>
            \A n \in Yielded(r)' :
                Selects(r, n) => fs'[PathOf(r, n)] = "none"]_vars

\* C10 as amended: ... and when such a pass ends, every selected entry that
\* was listed has been attempted, and no longer exists unless its removal
\* failed.
C10_DeletedEntriesAreSuccess ==
    [][\A r \in RoutineIds :
        /\ DeletedEntryIsSuccess(r)
        /\ (PassEnded(r) /\ RaceHappened(r))' =>
            \A n \in Yielded(r)' :
                Selects(r, n) =>
                    /\ entries'[r][n] \in {"removed", "not_found", "failed"}
                    /\ entries'[r][n] # "failed" => fs'[PathOf(r, n)] = "none"]_vars

C10_Witness ==
    /\ ~Disjoint
    /\ PassEnded(2)
    /\ entries[2][NameALnk] = "not_found"
    /\ entries[2][NameBTxt] = "removed"
    /\ entries[1][NameALnk] = "removed"

====
